---- MODULE Spec2Model ----
(***************************************************************************)
(* plox.tools.system: sys_exec, the supervised process executor, and the   *)
(* helpers sync_command, block_until and syscall_to_condition;             *)
(* plox.tools.environment: modified_environ, ensure_envars_set,            *)
(* parse_environment_file_to_values and add_to_env_from_file;              *)
(* plox.tools.utilities: window_iterator; plox.tools.interaction: confirm. *)
(*                                                                         *)
(* Spec and FairSpec are one call of sys_exec; SpecTwo is two concurrent   *)
(* calls of sys_exec; SpecTools and FairSpecTools are one call of          *)
(* block_until, sync_command or modified_environ; SpecLib is one call of   *)
(* one of the other functions.                                             *)
(*                                                                         *)
(* One invocation of sys_exec is modelled together with the child process  *)
(* it spawns, the two OS pipes between them, the drain threads started by  *)
(* _join_logging_thread, the capture file written by _process_out, the     *)
(* two loggers, and the wall clock of p.wait(timeout=...).                 *)
(*                                                                         *)
(* Assumptions of the model (environment, not code):                       *)
(*   - Popen itself succeeds for an existing executable, and the capture   *)
(*     destination is writable (mkdir/open/flush/close do not raise);      *)
(*   - a pipe holds whole lines, at most PipeCap of them;                  *)
(*   - the stream errors of _process_out's "except Exception" are          *)
(*     readline() raising and cap_f.write() raising; a stream can also be  *)
(*     broken for good (every readline() raises).                          *)
(***************************************************************************)
EXTENDS Integers, Sequences, FiniteSets, TLC

(* ---------------------------- bounds ----------------------------------- *)
MaxProg == 2          \* longest child program (writes and closes)
PipeCap == 1          \* lines an OS pipe holds before the writer blocks
MaxTimeoutMins == 1   \* largest exec_timeout_mins tried
MaxFaults == 1        \* transient stream errors per invocation
MaxErrLog == 2        \* the count of logged drain errors saturates here
MaxTimeoutS == 3      \* largest timeout_s of block_until tried
MaxWaitS == 2         \* largest condition_fail_wait_s tried
MaxTrueAt == 3        \* latest evaluation at which the condition turns true
MaxCondDur == 1       \* longest evaluation of the condition, in clock ticks
TicksPerSec == 2      \* resolution of the clock of block_until
MaxRc == 2            \* largest exit code of the command of sync_command
MaxVal == 2           \* values an environment variable takes: 1..MaxVal
MaxBodyOps == 1       \* changes the body of a with-block makes to os.environ
MaxLines == 2         \* stdout lines a child of two concurrent calls writes
MaxText == 5          \* longest environment file, in characters
MaxList == 2          \* longest to_validate of ensure_envars_set
MaxSeqLen == 3        \* longest list given to window_iterator
MaxWidth == 4         \* largest width n given to window_iterator
MaxPrompts == 3       \* prompts of confirm before the user answers y, n or nothing

(* ------------------------- program constants --------------------------- *)
SecsPerMin == 60      \* "Time in minutes before command is timed out"
SIGPIPE == 13         \* Popen reports -13 for a child killed by SIGPIPE

Streams == {"stdout", "stderr"}
NL == 0               \* the newline character
SP == -1              \* a blank
Whitespace == {NL, SP}
None == <<>>          \* Python's None; an integer n is held as <<n>>
Some(n) == <<n>>
ExitStatuses == {0, 1}
MaxClock == SecsPerMin * MaxTimeoutMins
ExitCode == -1        \* sync_command: exit(-1)
RetCodes == (0 - 1)..MaxRc   \* exit codes of a command; negative: killed by a signal
Names == {"A", "B"}   \* names of environment variables
ALL == "ALL"          \* the name that stands for every variable in remove
Unset == 0            \* the place of a name that is not a key of the mapping
Values == 1..MaxVal
Mappings == [Names -> {Unset} \cup Values]
Keys(m) == {k \in Names : m[k] # Unset}
Empty == [k \in Names |-> Unset]
Calls == {1, 2}       \* two concurrent calls of sys_exec
LetterA == 1          \* a word character, as in a variable name
EqSign == 2           \* the character "="
Hash == 3             \* the character "#"
Dollar == 4           \* the character "$"
Alphabet == {LetterA, EqSign, Hash, Dollar, NL}
Texts == UNION {[1..n -> Alphabet] : n \in 0..MaxText}
Paths == {"f", "g"}   \* capture destinations

VARIABLES
    \* the arguments of sys_exec (fixed during the call)
    executable_exists,   \* executable.exists()
    stdout_file_dest,    \* None or the capture path, <<"dest">>
    quiet_stderr,
    exec_timeout_mins,
    \* the child program behind the executable
    program,             \* sequence of "o", "e" (write a line), "co", "ce" (close)
    ending,              \* "exit" or "hang"
    exit_status,         \* the status it exits with, if it exits
    \* the environment's stream faults
    broken,              \* a stream whose readline() always raises, or "none"
    faults,              \* how many transient errors may still come
    \* sys_exec, the threads and the Popen object
    pc, ret, err, th, cap_f, cap_buf, closed, returncode,
    \* the child process and the pipes
    childState, cpc, status, wopen, pipe,
    \* the file system and the loggers
    capExists, capFile, exec_log, module_log, errLogged, errOdd,
    \* history: readline() returned "" on the stream
    sawEOF,
    \* time, in seconds since p.wait was called
    clock, exitAt

argVars == <<executable_exists, stdout_file_dest, quiet_stderr, exec_timeout_mins>>
envVars == <<program, ending, exit_status, broken>>
mainVars == <<pc, ret, err, returncode, closed>>
thVars == <<th, cap_f, cap_buf, sawEOF>>
childVars == <<childState, cpc, status, wopen, exitAt>>
fsVars == <<capExists, capFile>>
logVars == <<exec_log, module_log, errLogged, errOdd>>
execVars == <<argVars, envVars, faults, mainVars, thVars, childVars, pipe, fsVars,
              logVars, clock>>

VARIABLES
    \* the arguments of block_until; the condition is syscall_to_condition(call)
    timeout_s, condition_fail_wait_s,
    trueAt,              \* the evaluation at which call() first returns 0; 0: never
    call_fail,           \* what call() does until then: "nonzero", "raise", "mixed"
    cond_dur,            \* clock ticks one evaluation of the condition takes
    effect_ret,          \* what effect() returns
    t0,                  \* the time of the call, in ticks
    \* block_until
    bu_pc, now, start, evals, effects, bu_ret, bu_err,
    \* syscall_to_condition's _c
    lastCall, lastCond, excLogged,
    \* history: the ticks since t0 at which each evaluation started
    evalAt

buArgs == <<timeout_s, condition_fail_wait_s, trueAt, call_fail, cond_dur, effect_ret, t0>>
buVars == <<buArgs, bu_pc, now, start, evals, effects, bu_ret, bu_err, lastCall,
            lastCond, excLogged, evalAt>>

\* What a call of sys_exec leaves alone.
\* sync_command: its arguments, the command's exit code, and the call's state.
VARIABLES shell, exit_on_error, cmd_rc, sc_pc, ran, proc, stderr_logged, sc_ret, sc_exit

scArgs == <<shell, exit_on_error, cmd_rc>>
scVars == <<scArgs, sc_pc, ran, proc, stderr_logged, sc_ret, sc_exit>>

\* modified_environ: os.environ, the arguments, the generator's locals, the
\* environment before the call and at the yield, and what the body did.
VARIABLES env, remove, update, env_before, env_inside, update_after, remove_after,
          me_pc, body_ops, body_raised, me_err

meArgs == <<remove, update, env_before>>
meVars == <<meArgs, env, env_inside, update_after, remove_after, me_pc, body_ops,
            body_raised, me_err>>

\* Two concurrent calls of sys_exec: their arguments and children (calls),
\* the calling threads (runs), the children (kids), the file system and
\* the records of the logger "sys_exec", which both calls use.
VARIABLES calls, runs, kids, files, sys_exec_log

twoVars == <<calls, runs, kids, files, sys_exec_log>>

\* parse_environment_file_to_values and add_to_env_from_file: the text of
\* the file, the function called, os.environ before the call and now, the
\* parsed dict, the items still to be set, and the call's state.
VARIABLES ef_text, ef_fn, ef_env0, os_environ, prepped, ef_todo, ef_pc, ef_err

efArgs == <<ef_text, ef_fn, ef_env0>>
efVars == <<efArgs, os_environ, prepped, ef_todo, ef_pc, ef_err>>

\* ensure_envars_set: its arguments, os.environ (a variable's value names a
\* path), the paths that exist, the paths mkdir cannot make, the place in
\* to_validate, and the call's state.
VARIABLES to_validate, are_paths, create_ok, ev_environ, ev_exists, ev_unmakable,
          ev_i, ev_pc, ev_err

evArgs == <<to_validate, are_paths, create_ok, ev_environ, ev_unmakable>>
evVars == <<evArgs, ev_exists, ev_i, ev_pc, ev_err>>

\* window_iterator: its arguments, the generator's locals (seq_size, the
\* number of elements taken from it, result), what it has yielded so far, and
\* where it is suspended.
VARIABLES wi_seq, wi_n, seq_size, it_taken, wi_result, yielded, wi_pc

wiArgs == <<wi_seq, wi_n>>
wiVars == <<wiArgs, seq_size, it_taken, wi_result, yielded, wi_pc>>

\* confirm: its arguments, the responses typed so far, the messages printed
\* so far, and the call's state.
VARIABLES yes_is_default, silent, responses, printed, cf_pc, cf_ret

cfArgs == <<yes_is_default, silent>>
cfVars == <<cfArgs, responses, printed, cf_pc, cf_ret>>

libVars == <<efVars, evVars, wiVars, cfVars>>

notExec == <<buVars, scVars, meVars, twoVars, libVars>>
notBlockUntil == <<execVars, scVars, meVars, twoVars, libVars>>
notSync == <<execVars, buVars, meVars, twoVars, libVars>>
notEnviron == <<execVars, buVars, scVars, twoVars, libVars>>
notTwo == <<execVars, buVars, scVars, meVars, libVars>>
notLib == <<execVars, buVars, scVars, meVars, twoVars>>
notEnvFile == <<notLib, evVars, wiVars, cfVars>>
notEnsure == <<notLib, efVars, wiVars, cfVars>>
notWindow == <<notLib, efVars, evVars, cfVars>>
notConfirm == <<notLib, efVars, evVars, wiVars>>

vars == <<execVars, notExec>>

(* ------------------------------ lines ---------------------------------- *)
\* The line the child writes at step i of its program: a payload character,
\* a trailing blank on even steps, and the newline.
Line(i) == IF i % 2 = 0 THEN <<i, SP, NL>> ELSE <<i, NL>>

\* The line every capture file left by an earlier run holds.
StaleLine == <<MaxProg + 2, NL>>

\* str.rstrip(): drop trailing whitespace.
RECURSIVE Rstrip(_)
Rstrip(l) ==
    IF l = <<>> THEN <<>>
    ELSE IF l[Len(l)] \in Whitespace THEN Rstrip(SubSeq(l, 1, Len(l) - 1))
    ELSE l

StreamOf(op) == IF op \in {"o", "co"} THEN "stdout" ELSE "stderr"
IsWrite(op) == op \in {"o", "e"}

\* A program never writes to, or closes again, a stream it has closed.
WellFormed(p) ==
    ~\E i \in 1..Len(p) : \E j \in (i + 1)..Len(p) :
        ~IsWrite(p[i]) /\ StreamOf(p[i]) = StreamOf(p[j])

Programs ==
    {p \in UNION {[1..n -> {"o", "e", "co", "ce"}] : n \in 0..MaxProg} : WellFormed(p)}

\* The lines the program writes to stream s, in order.
RECURSIVE WrittenUpTo(_, _, _)
WrittenUpTo(p, s, n) ==
    IF n = 0 THEN <<>>
    ELSE WrittenUpTo(p, s, n - 1) \o
         (IF IsWrite(p[n]) /\ StreamOf(p[n]) = s THEN <<Line(n)>> ELSE <<>>)

(* ------------------------------ Init ----------------------------------- *)
\* No call of block_until is under way.
BlockUntilIdle ==
    /\ timeout_s = 0 /\ condition_fail_wait_s = 0 /\ trueAt = 0
    /\ call_fail = "nonzero" /\ cond_dur = 0 /\ effect_ret = 0 /\ t0 = 0
    /\ bu_pc = "idle" /\ now = 0 /\ start = 0 /\ evals = 0 /\ effects = 0
    /\ bu_ret = None /\ bu_err = "none"
    /\ lastCall = [raises |-> FALSE, rc |-> 0] /\ lastCond = FALSE /\ excLogged = 0
    /\ evalAt = <<>>

SyncIdle ==
    /\ shell = FALSE /\ exit_on_error = FALSE /\ cmd_rc = 0
    /\ sc_pc = "idle" /\ ran = "none" /\ proc = None /\ stderr_logged = FALSE
    /\ sc_ret = None /\ sc_exit = None

EnvironIdle ==
    /\ env = Empty /\ remove = {} /\ update = Empty /\ env_before = Empty
    /\ env_inside = Empty /\ update_after = Empty /\ remove_after = {}
    /\ me_pc = "idle" /\ body_ops = 0 /\ body_raised = FALSE /\ me_err = "none"

EnvFileIdle ==
    /\ ef_text = <<>> /\ ef_fn = "none" /\ ef_env0 = <<>> /\ os_environ = <<>>
    /\ prepped = <<>> /\ ef_todo = <<>> /\ ef_pc = "idle" /\ ef_err = "none"

EnsureIdle ==
    /\ to_validate = <<>> /\ are_paths = FALSE /\ create_ok = FALSE
    /\ ev_environ = Empty /\ ev_exists = {} /\ ev_unmakable = {}
    /\ ev_i = 0 /\ ev_pc = "idle" /\ ev_err = "none"

WindowIdle ==
    /\ wi_seq = <<>> /\ wi_n = 0 /\ seq_size = 0 /\ it_taken = 0 /\ wi_result = <<>>
    /\ yielded = <<>> /\ wi_pc = "idle"

ConfirmIdle ==
    /\ yes_is_default = FALSE /\ silent = FALSE /\ responses = <<>> /\ printed = <<>>
    /\ cf_pc = "idle" /\ cf_ret = FALSE

LibIdle == EnvFileIdle /\ EnsureIdle /\ WindowIdle /\ ConfirmIdle

ToolsIdle == BlockUntilIdle /\ SyncIdle /\ EnvironIdle

TwoIdle ==
    /\ calls = [i \in Calls |-> [executable_exists |-> FALSE, stdout_file_dest |-> None,
                                 status |-> 0, lines |-> 0]]
    /\ runs = [i \in Calls |-> [pc |-> "idle", read |-> 0, cap_buf |-> <<>>,
                                ret |-> None, err |-> "none"]]
    /\ kids = [i \in Calls |-> [state |-> "unborn", written |-> 0]]
    /\ files = [d \in Paths |-> <<>>]
    /\ sys_exec_log = {}

Init ==
    /\ ToolsIdle /\ TwoIdle /\ LibIdle
    /\ executable_exists \in BOOLEAN
    /\ stdout_file_dest \in {None, <<"dest">>}
    /\ quiet_stderr \in BOOLEAN
    /\ exec_timeout_mins \in 1..MaxTimeoutMins
    /\ program \in Programs
    /\ ending \in {"exit", "hang"}
    /\ exit_status \in ExitStatuses
    /\ (ending = "hang" => exit_status = 0)
    /\ broken \in Streams \cup {"none"}
    /\ faults \in {0, MaxFaults}
    /\ (broken # "none" => faults = 0)
    /\ pc = "call"
    /\ ret = None
    /\ err = "none"
    /\ returncode = None
    /\ th = [s \in Streams |-> "none"]
    /\ cap_f = [s \in Streams |-> "None"]
    /\ cap_buf = <<>>
    /\ closed = [s \in Streams |-> FALSE]
    /\ childState = "unborn"
    /\ cpc = 1
    /\ status = None
    /\ wopen = [s \in Streams |-> FALSE]
    /\ pipe = [s \in Streams |-> <<>>]
    /\ capExists \in BOOLEAN
    /\ (stdout_file_dest = None => ~capExists)
    /\ capFile = IF capExists THEN <<StaleLine>> ELSE <<>>
    /\ exec_log = <<>>
    /\ module_log = {}
    /\ errLogged = [s \in Streams |-> 0]
    /\ errOdd = [s \in Streams |-> FALSE]
    /\ sawEOF = [s \in Streams |-> FALSE]
    /\ clock = 0
    /\ exitAt = 0

(* ------------------------------ sys_exec ------------------------------- *)
\* The existence check left out.
ExecutableUsable_unchecked == TRUE

\* line 100: "if not executable.exists()" lets the call go on.
ExecutableUsable == executable_exists

\* lines 100-101: a missing executable raises before anything else is done.
RaiseBadExecutable ==
    /\ pc = "call"
    /\ ~ExecutableUsable
    /\ pc' = "raised"
    /\ err' = "RuntimeError"
    /\ UNCHANGED <<notExec, argVars, envVars, faults, ret, returncode, closed, thVars,
                   childVars, pipe, fsVars, logVars, clock>>

\* lines 104-118: the call is logged and Popen spawns the child with fresh pipes.
Spawn ==
    /\ pc = "call"
    /\ ExecutableUsable
    /\ childState' = "running"
    /\ wopen' = [s \in Streams |-> TRUE]
    /\ module_log' = module_log \cup {"Executing"}
    /\ pc' = "start_stdout"
    /\ UNCHANGED <<notExec, argVars, envVars, faults, ret, err, returncode, closed, thVars,
                   cpc, status, exitAt, pipe, fsVars, exec_log, errLogged, errOdd, clock>>

\* lines 30-31 of _join_logging_thread: th = Thread(...); th.start().
StartThread(s) ==
    /\ pc = "start_" \o s
    /\ th' = [th EXCEPT ![s] = "setup"]
    /\ pc' = "join_" \o s
    /\ UNCHANGED <<notExec, argVars, envVars, faults, ret, err, returncode, closed, cap_f,
                   cap_buf, sawEOF, childVars, pipe, fsVars, logVars, clock>>

\* The thread started and not joined.
ThreadJoined_nojoin(s) == TRUE

\* line 32: th.join() returns once the thread has terminated.
ThreadJoined(s) == th[s] = "done"

\* The stderr drain left out whatever quiet_stderr says.
DrainsStderr_never == FALSE

\* The stderr drain run whatever quiet_stderr says.
DrainsStderr_always == TRUE

\* line 121: "if not quiet_stderr" decides whether stderr is drained at all.
DrainsStderr == ~quiet_stderr

\* lines 32, 120-124: the join returns and sys_exec goes on to its next step.
JoinThread(s) ==
    /\ pc = "join_" \o s
    /\ ThreadJoined(s)
    /\ pc' = IF s = "stdout" /\ DrainsStderr THEN "start_stderr" ELSE "wait"
    /\ UNCHANGED <<notExec, argVars, envVars, faults, ret, err, returncode, closed, thVars,
                   childVars, pipe, fsVars, logVars, clock>>

(* --------------------------- _process_out ------------------------------ *)
\* lines 119, 122: the capture destination bound into each drain function.
CapDestOf(s) == IF s = "stdout" THEN stdout_file_dest ELSE None

\* The capture file opened for appending.
OpenedFile_append(content) == content

\* line 49: cap_dest.open("w") truncates what the file held.
OpenedFile(content) == <<>>

\* lines 45-50: cap_f = None, or the capture file is created and opened.
ThreadSetup(s) ==
    /\ th[s] = "setup"
    /\ IF CapDestOf(s) # None
       THEN /\ capExists' = TRUE
            /\ capFile' = OpenedFile(capFile)
            /\ cap_f' = [cap_f EXCEPT ![s] = "open"]
            /\ cap_buf' = <<>>
            /\ module_log' = module_log \cup {"Set up output to capture file"}
       ELSE UNCHANGED <<capExists, capFile, cap_f, cap_buf, module_log>>
    /\ th' = [th EXCEPT ![s] = "loop"]
    /\ UNCHANGED <<notExec, argVars, envVars, faults, mainVars, sawEOF, childVars, pipe,
                   exec_log, errLogged, errOdd, clock>>

\* lines 119, 122: the prefix bound into each drain function.
PrefixOf(s) == IF s = "stdout" THEN "o>>" ELSE "e>>"

\* line 59: exec_logger.log(level, f"{prefix} {line.rstrip()}").
LogRecord(s, line) == [prefix |-> PrefixOf(s), text |-> Rstrip(line)]

\* lines 65-66: logger.error(...) twice; the model counts the errors per drain
\* up to MaxErrLog (errOdd keeps the parity of their number beyond it).
ErrorLogged(s) ==
    [errLogged EXCEPT ![s] = IF @ < MaxErrLog THEN @ + 1 ELSE @]

\* lines 64-66: what the drain does after "except Exception": it logs and the
\* "while True" loop goes round again.
AfterError(s) == "loop"

\* lines 58-61: readline() returns a line; it is logged and written to cap_f.
DrainLine(s) ==
    /\ th[s] = "loop"
    /\ ~closed[s]
    /\ broken # s
    /\ pipe[s] # <<>>
    /\ pipe' = [pipe EXCEPT ![s] = Tail(@)]
    /\ exec_log' = Append(exec_log, LogRecord(s, Head(pipe[s])))
    /\ cap_buf' = IF cap_f[s] = "open" THEN Append(cap_buf, Head(pipe[s])) ELSE cap_buf
    /\ UNCHANGED <<notExec, argVars, envVars, faults, mainVars, th, cap_f, sawEOF, childVars,
                   fsVars, module_log, errLogged, errOdd, clock>>

\* lines 58-61, 64-66: the line is read and logged, cap_f.write(line) raises.
DrainLineWriteRaises(s) ==
    /\ th[s] = "loop"
    /\ ~closed[s]
    /\ broken # s
    /\ pipe[s] # <<>>
    /\ cap_f[s] = "open"
    /\ faults > 0
    /\ faults' = faults - 1
    /\ pipe' = [pipe EXCEPT ![s] = Tail(@)]
    /\ exec_log' = Append(exec_log, LogRecord(s, Head(pipe[s])))
    /\ errLogged' = ErrorLogged(s)
    /\ errOdd' = [errOdd EXCEPT ![s] = ~@]
    /\ th' = [th EXCEPT ![s] = AfterError(s)]
    /\ UNCHANGED <<notExec, argVars, envVars, mainVars, cap_f, cap_buf, sawEOF, childVars,
                   fsVars, module_log, clock>>

\* lines 58, 64-66: readline() raises; nothing is consumed from the pipe.
DrainReadRaises(s) ==
    /\ th[s] = "loop"
    /\ ~closed[s]
    /\ broken = s \/ faults > 0
    /\ faults' = IF broken = s THEN faults ELSE faults - 1
    /\ errLogged' = ErrorLogged(s)
    /\ errOdd' = [errOdd EXCEPT ![s] = ~@]
    /\ th' = [th EXCEPT ![s] = AfterError(s)]
    /\ UNCHANGED <<notExec, argVars, envVars, mainVars, cap_f, cap_buf, sawEOF, childVars,
                   pipe, fsVars, exec_log, module_log, clock>>

\* The finally clause without its close.
CloseCapture_leak(c) == c

\* lines 67-70: the finally clause leaves the capture file handle closed.
CloseCapture(c) == IF c = "open" THEN "closed" ELSE c

\* lines 54-55, 62-63, 67-70: the pipe object is closed, or readline()
\* returns "": the drain returns through the finally clause, which flushes and
\* closes the capture file.
DrainReturn(s) ==
    /\ th[s] = "loop"
    /\ IF closed[s] THEN TRUE
       ELSE broken # s /\ pipe[s] = <<>> /\ ~wopen[s]
    /\ sawEOF' = [sawEOF EXCEPT ![s] = ~closed[s]]
    /\ capFile' = IF cap_f[s] = "open" THEN capFile \o cap_buf ELSE capFile
    /\ cap_buf' = IF cap_f[s] = "open" THEN <<>> ELSE cap_buf
    /\ cap_f' = [cap_f EXCEPT ![s] = CloseCapture(@)]
    /\ th' = [th EXCEPT ![s] = "done"]
    /\ UNCHANGED <<notExec, argVars, envVars, faults, mainVars, childVars, pipe, capExists,
                   logVars, clock>>

_process_out(s) ==
    \/ ThreadSetup(s)
    \/ DrainLine(s)
    \/ DrainLineWriteRaises(s)
    \/ DrainReadRaises(s)
    \/ DrainReturn(s)

(* --------------------------- p.wait and exit --------------------------- *)
\* line 124: p.wait(timeout=exec_timeout_mins): Popen.wait takes seconds.
TimeoutSecs == exec_timeout_mins

\* p.poll() in the place of p.wait(): no waiting for the child.
WaitDone_poll == TRUE

\* line 124: p.wait returns once the child has terminated.
WaitDone == childState = "exited"

\* lines 124-125 and the end of the with block: the status is reaped,
\* returned, and Popen.__exit__ closes the pipe objects.
WaitReturn ==
    /\ pc = "wait"
    /\ WaitDone
    /\ returncode' = status
    /\ ret' = returncode'
    /\ pc' = "returned"
    /\ closed' = [s \in Streams |-> TRUE]
    /\ UNCHANGED <<notExec, argVars, envVars, faults, err, thVars, childVars, pipe, fsVars,
                   logVars, clock>>

\* line 124: the wait runs out; TimeoutExpired leaves the with block, whose
\* Popen.__exit__ closes the pipe objects and then waits for the child with
\* no timeout.
WaitTimeout ==
    /\ pc = "wait"
    /\ childState = "running"
    /\ clock >= TimeoutSecs
    /\ err' = "TimeoutExpired"
    /\ pc' = "exit_wait"
    /\ closed' = [s \in Streams |-> TRUE]
    /\ UNCHANGED <<notExec, argVars, envVars, faults, ret, returncode, thVars, childVars,
                   pipe, fsVars, logVars, clock>>

\* line 108: Popen.__exit__'s wait ends and TimeoutExpired reaches the caller.
ExitWaitDone ==
    /\ pc = "exit_wait"
    /\ childState = "exited"
    /\ returncode' = status
    /\ pc' = "raised"
    /\ UNCHANGED <<notExec, argVars, envVars, faults, ret, err, closed, thVars, childVars,
                   pipe, fsVars, logVars, clock>>

(* --------------------------- the child process ------------------------- *)
\* The child writes its next line: it blocks while the pipe is full, and is
\* killed by SIGPIPE when the parent has closed the read end.
ChildWrite ==
    /\ childState = "running"
    /\ cpc <= Len(program)
    /\ IsWrite(program[cpc])
    /\ LET s == StreamOf(program[cpc]) IN
       IF closed[s]
       THEN /\ childState' = "exited"
            /\ status' = Some(0 - SIGPIPE)
            /\ wopen' = [x \in Streams |-> FALSE]
            /\ exitAt' = clock
            /\ UNCHANGED <<cpc, pipe>>
       ELSE /\ Len(pipe[s]) < PipeCap
            /\ pipe' = [pipe EXCEPT ![s] = Append(@, Line(cpc))]
            /\ cpc' = cpc + 1
            /\ UNCHANGED <<childState, status, wopen, exitAt>>
    /\ UNCHANGED <<notExec, argVars, envVars, faults, mainVars, thVars, fsVars, logVars, clock>>

\* The child closes its end of a stream.
ChildClose ==
    /\ childState = "running"
    /\ cpc <= Len(program)
    /\ ~IsWrite(program[cpc])
    /\ wopen' = [wopen EXCEPT ![StreamOf(program[cpc])] = FALSE]
    /\ cpc' = cpc + 1
    /\ UNCHANGED <<notExec, argVars, envVars, faults, mainVars, thVars, childState, status,
                   exitAt, pipe, fsVars, logVars, clock>>

\* The child terminates, which closes all its descriptors.
ChildExit ==
    /\ childState = "running"
    /\ cpc > Len(program)
    /\ ending = "exit"
    /\ childState' = "exited"
    /\ status' = Some(exit_status)
    /\ wopen' = [x \in Streams |-> FALSE]
    /\ exitAt' = clock
    /\ UNCHANGED <<notExec, argVars, envVars, faults, mainVars, thVars, cpc, pipe, fsVars,
                   logVars, clock>>

\* A second passes while sys_exec waits for the child; p.wait does not
\* sleep past its deadline.
Tick ==
    /\ pc \in {"wait", "exit_wait"}
    /\ childState = "running"
    /\ clock < MaxClock
    /\ pc = "wait" => clock < TimeoutSecs
    /\ clock' = clock + 1
    /\ UNCHANGED <<notExec, argVars, envVars, faults, mainVars, thVars, childVars, pipe,
                   fsVars, logVars>>

(* --------------------------- specification ----------------------------- *)
sys_exec ==
    \/ RaiseBadExecutable
    \/ Spawn
    \/ \E s \in Streams : StartThread(s)
    \/ \E s \in Streams : JoinThread(s)
    \/ WaitReturn
    \/ WaitTimeout
    \/ ExitWaitDone

Child == ChildWrite \/ ChildClose \/ ChildExit

Next ==
    \/ sys_exec
    \/ \E s \in Streams : _process_out(s)
    \/ Child
    \/ Tick

Spec == Init /\ [][Next]_vars

\* Threads and processes that can run do run, and time passes.
FairSpec ==
    /\ Spec
    /\ WF_vars(sys_exec)
    /\ \A s \in Streams : WF_vars(_process_out(s))
    /\ WF_vars(Child)
    /\ WF_vars(Tick)

(* --------------------------- the helpers ------------------------------- *)
\* No call of sys_exec is under way.
ExecIdle ==
    /\ executable_exists = FALSE /\ stdout_file_dest = None /\ quiet_stderr = FALSE
    /\ exec_timeout_mins = 1
    /\ program = <<>> /\ ending = "exit" /\ exit_status = 0 /\ broken = "none"
    /\ faults = 0
    /\ pc = "idle" /\ ret = None /\ err = "none" /\ returncode = None
    /\ th = [s \in Streams |-> "none"]
    /\ cap_f = [s \in Streams |-> "None"]
    /\ cap_buf = <<>>
    /\ closed = [s \in Streams |-> FALSE]
    /\ childState = "unborn" /\ cpc = 1 /\ status = None
    /\ wopen = [s \in Streams |-> FALSE]
    /\ pipe = [s \in Streams |-> <<>>]
    /\ capExists = FALSE /\ capFile = <<>>
    /\ exec_log = <<>> /\ module_log = {}
    /\ errLogged = [s \in Streams |-> 0]
    /\ errOdd = [s \in Streams |-> FALSE]
    /\ sawEOF = [s \in Streams |-> FALSE]
    /\ clock = 0 /\ exitAt = 0

(* --------------------- syscall_to_condition ---------------------------- *)
\* What the n-th call() does: it returns 0 from the trueAt-th call on; until
\* then it returns a non-zero code or raises, as call_fail says.
Call(n) ==
    IF trueAt # 0 /\ n >= trueAt THEN [raises |-> FALSE, rc |-> 0]
    ELSE IF call_fail = "raise" \/ (call_fail = "mixed" /\ n % 2 = 1)
         THEN [raises |-> TRUE, rc |-> 0]
    ELSE [raises |-> FALSE, rc |-> IF n % 2 = 1 THEN n ELSE 0 - n]

\* The wrapper with "call() != 0".
ConditionOf_inverted(c) == IF c.raises THEN FALSE ELSE c.rc # 0

\* lines 204-209: _c returns call() == 0, and False when call() raises.
ConditionOf(c) == IF c.raises THEN FALSE ELSE c.rc = 0

(* --------------------------- block_until ------------------------------- *)
\* int(time()): the clock reading cut to whole seconds.
IntTime(t) == t \div TicksPerSec

\* line 178: start = datetime.fromtimestamp(int(time()), timezone.utc).
BuStart ==
    /\ bu_pc = "call"
    /\ start' = IntTime(now)
    /\ bu_pc' = "check"
    /\ UNCHANGED <<notBlockUntil, buArgs, now, evals, effects, bu_ret, bu_err, lastCall,
                   lastCond, excLogged, evalAt>>

\* The timeout test with ">=".
TimedOut_early(t) == IntTime(t) - start >= timeout_s

\* line 180: the whole seconds since start exceed timeout_s.
TimedOut(t) == IntTime(t) - start > timeout_s

\* lines 180-183: the timeout test at the head of the loop.
BuCheck ==
    /\ bu_pc = "check"
    /\ IF TimedOut(now)
       THEN bu_pc' = "raised" /\ bu_err' = "TimeoutError"
       ELSE bu_pc' = "cond" /\ UNCHANGED bu_err
    /\ UNCHANGED <<notBlockUntil, buArgs, now, start, evals, effects, bu_ret, lastCall,
                   lastCond, excLogged, evalAt>>

\* The branches of "if condition()" swapped.
AfterCondition_swapped(result) == IF result THEN "sleep" ELSE "effect"

\* lines 185-190: on a true condition the effect is next, else the sleep.
AfterCondition(result) == IF result THEN "effect" ELSE "sleep"

\* line 185 with lines 204-209: the condition is evaluated; an exception of
\* call() is logged by _c and goes no further.
BuCondition ==
    /\ bu_pc = "cond"
    /\ evals' = evals + 1
    /\ lastCall' = Call(evals')
    /\ lastCond' = ConditionOf(lastCall')
    /\ excLogged' = IF lastCall'.raises THEN excLogged + 1 ELSE excLogged
    /\ evalAt' = Append(evalAt, now - t0)
    /\ now' = now + cond_dur
    /\ bu_pc' = AfterCondition(lastCond')
    /\ UNCHANGED <<notBlockUntil, buArgs, start, effects, bu_ret, bu_err>>

\* lines 186-187: return effect().
BuEffect ==
    /\ bu_pc = "effect"
    /\ effects' = effects + 1
    /\ bu_ret' = Some(effect_ret)
    /\ bu_pc' = "returned"
    /\ UNCHANGED <<notBlockUntil, buArgs, now, start, evals, bu_err, lastCall, lastCond,
                   excLogged, evalAt>>

\* lines 189-190: sleep(condition_fail_wait_s), then round the loop.
BuSleep ==
    /\ bu_pc = "sleep"
    /\ now' = now + condition_fail_wait_s * TicksPerSec
    /\ bu_pc' = "check"
    /\ UNCHANGED <<notBlockUntil, buArgs, start, evals, effects, bu_ret, bu_err, lastCall,
                   lastCond, excLogged, evalAt>>

block_until == BuStart \/ BuCheck \/ BuCondition \/ BuEffect \/ BuSleep

\* A call of block_until(syscall_to_condition(call), effect, timeout_s,
\* condition_fail_wait_s) at time t0.
InitBlockUntil ==
    /\ timeout_s \in 0..MaxTimeoutS
    /\ condition_fail_wait_s \in 1..MaxWaitS
    /\ trueAt \in 0..MaxTrueAt
    /\ call_fail \in {"nonzero", "raise", "mixed"}
    /\ cond_dur \in 0..MaxCondDur
    /\ effect_ret \in {0, 1}
    /\ t0 \in 0..(TicksPerSec - 1)
    /\ bu_pc = "call" /\ now = t0 /\ start = 0 /\ evals = 0 /\ effects = 0
    /\ bu_ret = None /\ bu_err = "none"
    /\ lastCall = [raises |-> FALSE, rc |-> 0] /\ lastCond = FALSE /\ excLogged = 0
    /\ evalAt = <<>>

(* --------------------------- sync_command ------------------------------ *)
\* A call of sync_command(cmd, shell, exit_on_error) on a command that exits
\* with cmd_rc; line 144: proc = None.
InitSync ==
    /\ shell \in BOOLEAN /\ exit_on_error \in BOOLEAN /\ cmd_rc \in RetCodes
    /\ sc_pc = "call" /\ ran = "none" /\ proc = None /\ stderr_logged = FALSE
    /\ sc_ret = None /\ sc_exit = None

\* lines 145-148: run the command, as one string through the shell or split
\* into its words, and keep the completed process.
ScRun ==
    /\ sc_pc = "call"
    /\ ran' = IF shell THEN "shell" ELSE "argv"
    /\ proc' = Some(cmd_rc)
    /\ sc_pc' = "check"
    /\ UNCHANGED <<notSync, scArgs, stderr_logged, sc_ret, sc_exit>>

\* The test reading "True": every command counts as failed.
Failed_always(p) == p = p

\* line 150: proc.returncode != 0.
Failed(p) == p # Some(0)

\* lines 150-153: a failed command has its stderr logged, then exit(-1) ends
\* the process when exit_on_error is set.
ScCheck ==
    /\ sc_pc = "check"
    /\ IF Failed(proc)
       THEN /\ stderr_logged' = TRUE
            /\ IF exit_on_error
               THEN sc_exit' = Some(ExitCode) /\ sc_pc' = "exited"
               ELSE sc_pc' = "return" /\ UNCHANGED sc_exit
       ELSE sc_pc' = "return" /\ UNCHANGED <<stderr_logged, sc_exit>>
    /\ UNCHANGED <<notSync, scArgs, ran, proc, sc_ret>>

\* line 154: return proc.
ScReturn ==
    /\ sc_pc = "return"
    /\ sc_ret' = proc
    /\ sc_pc' = "returned"
    /\ UNCHANGED <<notSync, scArgs, ran, proc, stderr_logged, sc_exit>>

sync_command == ScRun \/ ScCheck \/ ScReturn

(* ------------------------- modified_environ ---------------------------- *)
\* dict.update(u): every key of u takes u's value.
Update(e, u) == [k \in Names |-> IF u[k] # Unset THEN u[k] ELSE e[k]]

\* line 220: env.pop(k, None) for every k of a collection of names.
PopEach(e, S) == [k \in Names |-> IF k \in S THEN Unset ELSE e[k]]

\* The names to remove with "ALL" taken as a plain name.
RemoveSet_literal(r, e) == r

\* lines 205-207: the names to remove; "ALL" stands for every key of environ.
RemoveSet(r, e) == IF ALL \in r THEN Keys(e) ELSE r

\* line 213: the variables of the environment that are updated or removed.
Stomped(r, u, e) == (Keys(u) \cup RemoveSet(r, e)) \cap Keys(e)

\* line 225: env.pop(k) for the names of remove_after in the order the
\* frozenset yields them; a name that is no longer set raises KeyError and
\* the names after it are not reached.
RECURSIVE PopInOrder(_, _)
PopInOrder(e, order) ==
    IF order = <<>> THEN [env |-> e, raised |-> FALSE]
    ELSE IF e[Head(order)] = Unset THEN [env |-> e, raised |-> TRUE]
    ELSE PopInOrder([e EXCEPT ![Head(order)] = Unset], Tail(order))

\* The orders in which a set can be iterated.
Orders(S) ==
    {o \in [1..Cardinality(S) -> S] : \A i, j \in 1..Cardinality(S) : o[i] = o[j] => i = j}

\* A with-block "with modified_environ(*remove, **update)" is entered with
\* the environment env_before.
InitEnviron ==
    /\ env \in Mappings /\ env_before = env
    /\ remove \in SUBSET (Names \cup {ALL})
    /\ update \in Mappings
    /\ env_inside = Empty /\ update_after = Empty /\ remove_after = {}
    /\ me_pc = "call" /\ body_ops = 0 /\ body_raised = FALSE /\ me_err = "none"

\* lines 204-222: up to the yield.
MeEnter ==
    /\ me_pc = "call"
    /\ update_after' = [k \in Names |-> IF k \in Stomped(remove, update, env)
                                          THEN env[k] ELSE Unset]
    /\ remove_after' = {k \in Keys(update) : k \notin Keys(env)}
    /\ env' = Update(PopEach(env, RemoveSet(remove, env)), update)
    /\ env_inside' = env'
    /\ me_pc' = "body"
    /\ UNCHANGED <<notEnviron, meArgs, body_ops, body_raised, me_err>>

\* The body of the with-block sets a variable.
BodySet ==
    /\ me_pc = "body" /\ body_ops < MaxBodyOps
    /\ \E k \in Names : \E v \in Values : env' = [env EXCEPT ![k] = v]
    /\ body_ops' = body_ops + 1
    /\ UNCHANGED <<notEnviron, meArgs, env_inside, update_after, remove_after, me_pc,
                   body_raised, me_err>>

\* The body of the with-block deletes a variable.
BodyDel ==
    /\ me_pc = "body" /\ body_ops < MaxBodyOps
    /\ \E k \in Keys(env) : env' = [env EXCEPT ![k] = Unset]
    /\ body_ops' = body_ops + 1
    /\ UNCHANGED <<notEnviron, meArgs, env_inside, update_after, remove_after, me_pc,
                   body_raised, me_err>>

\* The body ends, normally or with an exception.
BodyEnd ==
    /\ me_pc = "body"
    /\ body_raised' \in BOOLEAN
    /\ me_pc' = "finally"
    /\ UNCHANGED <<notEnviron, meArgs, env, env_inside, update_after, remove_after,
                   body_ops, me_err>>

\* lines 223-225: the finally clause; an exception raised in it replaces the
\* one of the body.
MeExit ==
    /\ me_pc = "finally"
    /\ \E order \in Orders(remove_after) :
          LET popped == PopInOrder(Update(env, update_after), order)
          IN  /\ env' = popped.env
              /\ me_err' = IF popped.raised THEN "KeyError"
                           ELSE IF body_raised THEN "BodyError" ELSE "none"
    /\ me_pc' = "exited"
    /\ UNCHANGED <<notEnviron, meArgs, env_inside, update_after, remove_after,
                   body_ops, body_raised>>

modified_environ == MeEnter \/ BodySet \/ BodyDel \/ BodyEnd \/ MeExit

(* -------------------------- the helpers' runs -------------------------- *)
\* One call of one helper.
InitTools ==
    /\ ExecIdle /\ TwoIdle /\ LibIdle
    /\ \/ InitBlockUntil /\ SyncIdle /\ EnvironIdle
       \/ BlockUntilIdle /\ InitSync /\ EnvironIdle
       \/ BlockUntilIdle /\ SyncIdle /\ InitEnviron

NextTools == block_until \/ sync_command \/ modified_environ

SpecTools == InitTools /\ [][NextTools]_vars

FairSpecTools == SpecTools /\ WF_vars(NextTools)

(* ---------------------- two concurrent sys_exec ------------------------ *)
\* Two calls of sys_exec run side by side, each in a thread of its own. Each
\* call has its own Popen object, pipes, drain threads and file object
\* (locals of lines 108-125 and 45-70); the file system and the module's two
\* loggers are the same for both. The pipes hold any number of lines here and
\* the children write to stdout only.

\* The n-th stdout line of the child of call i.
LineOf(i, n) == <<i, n>>

\* The stdout lines of the child of call i.
LinesOf(i) == [n \in 1..calls[i].lines |-> LineOf(i, n)]

\* Every call captures into the destination of the first call.
CapDest_first(i) == calls[1].stdout_file_dest

\* line 119: the stdout drain of call i gets that call's stdout_file_dest.
CapDest(i) == calls[i].stdout_file_dest

\* lines 69-70: flush writes the buffered lines from the start of the file,
\* over what is there.
Flushed(content, buf) ==
    [n \in 1..(IF Len(buf) > Len(content) THEN Len(buf) ELSE Len(content)) |->
        IF n <= Len(buf) THEN buf[n] ELSE content[n]]

InitTwo ==
    /\ calls \in [Calls -> [executable_exists : BOOLEAN,
                            stdout_file_dest : {None} \cup {Some(d) : d \in Paths},
                            status : ExitStatuses,
                            lines : 0..MaxLines]]
    /\ runs = [i \in Calls |-> [pc |-> "call", read |-> 0, cap_buf |-> <<>>,
                                ret |-> None, err |-> "none"]]
    /\ kids = [i \in Calls |-> [state |-> "unborn", written |-> 0]]
    /\ files = [d \in Paths |-> <<>>]
    /\ sys_exec_log = {}

\* lines 100-101.
TwoRaiseBadExecutable(i) ==
    /\ runs[i].pc = "call" /\ ~calls[i].executable_exists
    /\ runs' = [runs EXCEPT ![i].pc = "raised", ![i].err = "RuntimeError"]
    /\ UNCHANGED <<notTwo, calls, kids, files, sys_exec_log>>

\* lines 108-118: Popen starts the child of call i.
TwoSpawn(i) ==
    /\ runs[i].pc = "call" /\ calls[i].executable_exists
    /\ kids' = [kids EXCEPT ![i].state = "running"]
    /\ runs' = [runs EXCEPT ![i].pc = "setup"]
    /\ UNCHANGED <<notTwo, calls, files, sys_exec_log>>

\* lines 119-120, 31, 45-50: the stdout drain thread of call i starts and
\* opens its capture file with "w".
TwoThreadSetup(i) ==
    /\ runs[i].pc = "setup"
    /\ files' = IF CapDest(i) = None THEN files
                ELSE [files EXCEPT ![CapDest(i)[1]] = <<>>]
    /\ runs' = [runs EXCEPT ![i].pc = "loop"]
    /\ UNCHANGED <<notTwo, calls, kids, sys_exec_log>>

\* lines 58-61: a line is read, logged and written to the capture file object.
TwoDrainLine(i) ==
    /\ runs[i].pc = "loop" /\ runs[i].read < kids[i].written
    /\ LET line == LineOf(i, runs[i].read + 1)
       IN  /\ sys_exec_log' = sys_exec_log \cup {<<"o>>", line>>}
           /\ runs' = [runs EXCEPT ![i].read = @ + 1,
                                   ![i].cap_buf = IF CapDest(i) = None THEN @
                                                  ELSE Append(@, line)]
    /\ UNCHANGED <<notTwo, calls, kids, files>>

\* lines 62-63, 67-70, 32: end-of-stream; the capture file is flushed and
\* closed and the thread is joined.
TwoDrainReturn(i) ==
    /\ runs[i].pc = "loop" /\ runs[i].read = kids[i].written
    /\ kids[i].state = "exited"
    /\ files' = IF CapDest(i) = None THEN files
                ELSE [files EXCEPT ![CapDest(i)[1]] = Flushed(@, runs[i].cap_buf)]
    /\ runs' = [runs EXCEPT ![i].pc = "stderr"]
    /\ UNCHANGED <<notTwo, calls, kids, sys_exec_log>>

\* lines 121-122: the stderr drain, where there is one, finds end-of-stream:
\* the child has exited without writing to stderr.
TwoDrainStderr(i) ==
    /\ runs[i].pc = "stderr"
    /\ runs' = [runs EXCEPT ![i].pc = "wait"]
    /\ UNCHANGED <<notTwo, calls, kids, files, sys_exec_log>>

\* lines 124-125: p.wait and return p.returncode.
TwoWaitReturn(i) ==
    /\ runs[i].pc = "wait" /\ kids[i].state = "exited"
    /\ runs' = [runs EXCEPT ![i].pc = "returned", ![i].ret = Some(calls[i].status)]
    /\ UNCHANGED <<notTwo, calls, kids, files, sys_exec_log>>

\* The child of call i writes its next stdout line.
TwoChildWrite(i) ==
    /\ kids[i].state = "running" /\ kids[i].written < calls[i].lines
    /\ kids' = [kids EXCEPT ![i].written = @ + 1]
    /\ UNCHANGED <<notTwo, calls, runs, files, sys_exec_log>>

\* The child of call i exits, which closes its ends of the pipes.
TwoChildExit(i) ==
    /\ kids[i].state = "running" /\ kids[i].written = calls[i].lines
    /\ kids' = [kids EXCEPT ![i].state = "exited"]
    /\ UNCHANGED <<notTwo, calls, runs, files, sys_exec_log>>

sys_exec_of(i) ==
    \/ TwoRaiseBadExecutable(i) \/ TwoSpawn(i) \/ TwoThreadSetup(i) \/ TwoDrainLine(i)
    \/ TwoDrainReturn(i) \/ TwoDrainStderr(i) \/ TwoWaitReturn(i)

ChildOf(i) == TwoChildWrite(i) \/ TwoChildExit(i)

NextTwo == \E i \in Calls : sys_exec_of(i) \/ ChildOf(i)

InitTwoCalls == ExecIdle /\ ToolsIdle /\ LibIdle /\ InitTwo

SpecTwo == InitTwoCalls /\ [][NextTwo]_vars

(* ------------------- dicts, as Python keeps them ----------------------- *)
\* A dict is the sequence of its <<key, value>> items in insertion order.
KeysOf(d) == {d[n][1] : n \in 1..Len(d)}

\* d[k], for a key of d.
Get(d, k) == d[CHOOSE n \in 1..Len(d) : d[n][1] = k][2]

\* d[k] = v: a new key goes to the end, a known key keeps its place.
DictSet(d, k, v) ==
    IF k \in KeysOf(d)
    THEN [n \in 1..Len(d) |-> IF d[n][1] = k THEN <<k, v>> ELSE d[n]]
    ELSE Append(d, <<k, v>>)

(* ------------- file_contents, file_lines (plox.tools.files) ------------ *)
\* files.py lines 105-106: infile.read().rstrip().
file_contents(text) == Rstrip(text)

\* str.splitlines(): the pieces between the newlines, without them.
RECURSIVE SplitLines(_)
SplitLines(text) ==
    IF text = <<>> THEN <<>>
    ELSE IF \E n \in 1..Len(text) : text[n] = NL
         THEN LET n == CHOOSE m \in 1..Len(text) :
                          text[m] = NL /\ \A l \in 1..(m - 1) : text[l] # NL
              IN  <<SubSeq(text, 1, n - 1)>> \o SplitLines(SubSeq(text, n + 1, Len(text)))
         ELSE <<text>>

\* files.py lines 164-166: with skip_filtration (the default) file_lines
\* returns every line of the contents.
file_lines(text) == SplitLines(file_contents(text))

(* ---------------- parse_environment_file_to_values --------------------- *)
\* Where the leftmost match of (?P<key>[^=]+)= starts: at the first character
\* that is not "="; 0 when there is none.
KeyStart(line) ==
    IF \E n \in 1..Len(line) : line[n] # EqSign
    THEN CHOOSE n \in 1..Len(line) :
             line[n] # EqSign /\ \A l \in 1..(n - 1) : line[l] = EqSign
    ELSE 0

\* Where that match of the key ends: at the first "=" after KeyStart; 0 when
\* there is none.
KeyEnd(line) ==
    IF KeyStart(line) # 0 /\ \E n \in KeyStart(line)..Len(line) : line[n] = EqSign
    THEN CHOOSE n \in KeyStart(line)..Len(line) :
             line[n] = EqSign /\ \A l \in KeyStart(line)..(n - 1) : line[l] # EqSign
    ELSE 0

\* Every line taken as matching.
Matches_any(line) == line = line

\* lines 59-61: pattern.search(line) finds a match.
Matches(line) == KeyEnd(line) # 0

\* m.group("key") and m.group("value").
KeyOf(line) == SubSeq(line, KeyStart(line), KeyEnd(line) - 1)
ValueOf(line) == SubSeq(line, KeyEnd(line) + 1, Len(line))

\* The name that follows a "$": the longest run of word characters.
RECURSIVE NameAt(_)
NameAt(v) ==
    IF v # <<>> /\ Head(v) = LetterA THEN <<LetterA>> \o NameAt(Tail(v)) ELSE <<>>

\* os.path.expandvars: "$name" is replaced by the value of name when name is
\* in the environment and left as it is otherwise; what was put in is not
\* expanded again.
RECURSIVE expandvars(_, _)
expandvars(v, e) ==
    IF v = <<>> THEN <<>>
    ELSE IF Head(v) = Dollar /\ NameAt(Tail(v)) # <<>>
         THEN LET name == NameAt(Tail(v))
                  rest == SubSeq(v, Len(name) + 2, Len(v))
              IN  (IF name \in KeysOf(e) THEN Get(e, name) ELSE <<Dollar>> \o name)
                      \o expandvars(rest, e)
         ELSE <<Head(v)>> \o expandvars(Tail(v), e)

\* lines 58-70: dict(map(process_line, lines)); the first line without a
\* match raises RuntimeError.
RECURSIVE ProcessLines(_, _, _)
ProcessLines(lines, d, e) ==
    IF lines = <<>> THEN [raised |-> FALSE, dict |-> d]
    ELSE IF ~Matches(Head(lines)) THEN [raised |-> TRUE, dict |-> <<>>]
    ELSE ProcessLines(Tail(lines),
                      DictSet(d, KeyOf(Head(lines)), expandvars(ValueOf(Head(lines)), e)),
                      e)

\* parse_environment_file_to_values(envfile), expand_vars being true.
parse_environment_file_to_values(text, e) == ProcessLines(file_lines(text), <<>>, e)

\* A call of parse_environment_file_to_values or of add_to_env_from_file on
\* a file with the text ef_text.
InitEnvFile ==
    /\ ef_text \in Texts
    /\ ef_fn \in {"parse", "add"}
    /\ ef_env0 \in {<<>>, << <<<<LetterA>>, <<Hash>>>> >>}
    /\ os_environ = ef_env0
    /\ prepped = <<>> /\ ef_todo = <<>> /\ ef_pc = "call" /\ ef_err = "none"

\* lines 56-70 (and line 97 for add_to_env_from_file): the file is parsed;
\* parse_environment_file_to_values returns the dict, add_to_env_from_file
\* goes on to its loop over the items.
EfParse ==
    /\ ef_pc = "call"
    /\ LET r == parse_environment_file_to_values(ef_text, os_environ)
       IN  IF r.raised
           THEN /\ ef_pc' = "raised" /\ ef_err' = "RuntimeError"
                /\ UNCHANGED <<prepped, ef_todo>>
           ELSE /\ prepped' = r.dict
                /\ ef_todo' = IF ef_fn = "add" THEN r.dict ELSE <<>>
                /\ ef_pc' = IF ef_fn = "add" THEN "loop" ELSE "returned"
                /\ UNCHANGED ef_err
    /\ UNCHANGED <<notEnvFile, efArgs, os_environ>>

\* lines 97-99: environ[k] = v for the next item.
AddSet ==
    /\ ef_pc = "loop" /\ ef_todo # <<>>
    /\ os_environ' = DictSet(os_environ, Head(ef_todo)[1], Head(ef_todo)[2])
    /\ ef_todo' = Tail(ef_todo)
    /\ UNCHANGED <<notEnvFile, efArgs, prepped, ef_pc, ef_err>>

\* line 97: the items are used up; add_to_env_from_file returns.
AddReturn ==
    /\ ef_pc = "loop" /\ ef_todo = <<>>
    /\ ef_pc' = "returned"
    /\ UNCHANGED <<notEnvFile, efArgs, os_environ, prepped, ef_todo, ef_err>>

add_to_env_from_file == EfParse \/ AddSet \/ AddReturn

(* ------------------------- ensure_envars_set --------------------------- *)
\* A call of ensure_envars_set(to_validate, are_paths, create_ok); no path
\* that exists is one that mkdir cannot make.
InitEnsure ==
    /\ to_validate \in UNION {[1..n -> Names] : n \in 0..MaxList}
    /\ are_paths \in BOOLEAN /\ create_ok \in BOOLEAN
    /\ ev_environ \in Mappings
    /\ ev_exists \in SUBSET Values
    /\ ev_unmakable \in SUBSET (Values \ ev_exists)
    /\ ev_i = 1 /\ ev_pc = "loop" /\ ev_err = "none"

\* The path created whatever create_ok is.
MayCreate_always == TRUE

\* line 131: "not create_ok" is false.
MayCreate == create_ok

\* lines 120-139: one turn of the loop, for var = to_validate[ev_i].
EvCheck ==
    /\ ev_pc = "loop" /\ ev_i <= Len(to_validate)
    /\ LET var == to_validate[ev_i]
           p == ev_environ[var]
       IN  IF var \notin Keys(ev_environ)
           THEN /\ ev_pc' = "raised" /\ ev_err' = "MissingEnvironmentVariableError"
                /\ UNCHANGED <<ev_i, ev_exists>>
           ELSE IF ~are_paths \/ p \in ev_exists
           THEN /\ ev_i' = ev_i + 1
                /\ UNCHANGED <<ev_pc, ev_err, ev_exists>>
           ELSE IF ~MayCreate
           THEN /\ ev_pc' = "raised" /\ ev_err' = "MissingEnvironmentVariableError"
                /\ UNCHANGED <<ev_i, ev_exists>>
           ELSE IF p \in ev_unmakable
           THEN /\ ev_pc' = "raised" /\ ev_err' = "OSError"
                /\ UNCHANGED <<ev_i, ev_exists>>
           ELSE /\ ev_exists' = ev_exists \cup {p}
                /\ ev_i' = ev_i + 1
                /\ UNCHANGED <<ev_pc, ev_err>>
    /\ UNCHANGED <<notEnsure, evArgs>>

\* line 120: to_validate is used up; the function returns None.
EvReturn ==
    /\ ev_pc = "loop" /\ ev_i > Len(to_validate)
    /\ ev_pc' = "returned"
    /\ UNCHANGED <<notEnsure, evArgs, ev_exists, ev_i, ev_err>>

ensure_envars_set == EvCheck \/ EvReturn

(* -------------------------- window_iterator ---------------------------- *)
\* A call of window_iterator(seq, n) on a list; the generator has not run yet.
InitWindow ==
    /\ wi_seq \in UNION {[1..l -> {"a", "b"}] : l \in 0..MaxSeqLen}
    /\ wi_n \in 1..MaxWidth
    /\ seq_size = 0 /\ it_taken = 0 /\ wi_result = <<>> /\ yielded = <<>>
    /\ wi_pc = "start"

\* tuple(islice(it, k)): the next k elements of the iterator, or those left,
\* the iterator having given `taken` elements.
Islice(taken, k) ==
    SubSeq(wi_seq, taken + 1, IF taken + k <= Len(wi_seq) THEN taken + k ELSE Len(wi_seq))

\* The window grows by the new element.
Slide_grow(window, elem) == window \o <<elem>>

\* line 259: result[1:] + (elem,).
Slide(window, elem) == Tail(window) \o <<elem>>

\* lines 255-260, from "result = tuple(islice(it, n))" to the next yield or
\* to the end of the generator, the iterator having given `taken` elements.
FromResult(taken, given) ==
    LET window == Islice(taken, wi_n)
        after == taken + Len(window)
    IN  IF Len(window) = wi_n
        THEN /\ wi_result' = window /\ it_taken' = after
             /\ yielded' = Append(given, window) /\ wi_pc' = "loop"
        ELSE IF after < Len(wi_seq)
        THEN /\ wi_result' = Slide(window, wi_seq[after + 1]) /\ it_taken' = after + 1
             /\ yielded' = Append(given, wi_result') /\ wi_pc' = "loop"
        ELSE /\ wi_result' = window /\ it_taken' = after
             /\ yielded' = given /\ wi_pc' = "done"

\* lines 251-257: the first next() runs the generator to its first yield.
WiStart ==
    /\ wi_pc = "start"
    /\ seq_size' = Len(wi_seq)
    /\ IF wi_n > seq_size'
       THEN /\ yielded' = Append(yielded, Islice(it_taken, seq_size'))
            /\ it_taken' = it_taken + Len(Islice(it_taken, seq_size'))
            /\ wi_pc' = "short"
            /\ UNCHANGED wi_result
       ELSE FromResult(it_taken, yielded)
    /\ UNCHANGED <<notWindow, wiArgs>>

\* lines 255-260: next() after the yield of line 254.
WiAfterShort ==
    /\ wi_pc = "short"
    /\ FromResult(it_taken, yielded)
    /\ UNCHANGED <<notWindow, wiArgs, seq_size>>

\* lines 258-260: next() after a yield of line 257 or 260.
WiNext ==
    /\ wi_pc = "loop"
    /\ IF it_taken < Len(wi_seq)
       THEN /\ wi_result' = Slide(wi_result, wi_seq[it_taken + 1])
            /\ it_taken' = it_taken + 1
            /\ yielded' = Append(yielded, wi_result')
            /\ UNCHANGED wi_pc
       ELSE /\ wi_pc' = "done"
            /\ UNCHANGED <<wi_result, it_taken, yielded>>
    /\ UNCHANGED <<notWindow, wiArgs, seq_size>>

window_iterator == WiStart \/ WiAfterShort \/ WiNext

(* ------------------------------ confirm -------------------------------- *)
\* What the user may type at a prompt.
Responses ==
    {<<>>, <<"y">>, <<"Y">>, <<"n">>, <<"N">>, <<"x">>, <<"y", "y">>, <<"N", "O">>}

\* str.lower(), character by character.
LowerChar(c) == CASE c = "Y" -> "y" [] c = "N" -> "n" [] c = "O" -> "o" [] OTHER -> c
Lower(s) == [i \in 1..Len(s) |-> LowerChar(s[i])]

\* The default swapped.
DefaultOf_swapped(flag) == IF flag THEN <<"n">> ELSE <<"y">>

\* lines 75-76: default is yes when yes_is_default, else no.
DefaultOf(flag) == IF flag THEN <<"y">> ELSE <<"n">>

\* lines 79-81: the response lower-cased, the default standing for nothing.
Response(raw) == IF Lower(raw) = <<>> THEN DefaultOf(yes_is_default) ELSE Lower(raw)

\* A call of confirm(msg, yes_is_default, silent).
InitConfirm ==
    /\ yes_is_default \in BOOLEAN /\ silent \in BOOLEAN
    /\ responses = <<>> /\ printed = <<>> /\ cf_pc = "call" /\ cf_ret = FALSE

\* lines 72-76: silent returns True at once; else the loop is entered.
CfEnter ==
    /\ cf_pc = "call"
    /\ IF silent THEN cf_pc' = "returned" /\ cf_ret' = TRUE
                 ELSE cf_pc' = "prompt" /\ UNCHANGED cf_ret
    /\ UNCHANGED <<notConfirm, cfArgs, responses, printed>>

\* lines 78-86: one turn of the loop; the user types raw. (The last prompt
\* the model allows is answered with y, n or nothing.)
CfPrompt ==
    /\ cf_pc = "prompt"
    /\ \E raw \in Responses :
          /\ Len(responses) + 1 = MaxPrompts => Lower(raw) \in {<<>>, <<"y">>, <<"n">>}
          /\ responses' = Append(responses, raw)
          /\ IF Response(raw) \notin {<<"y">>, <<"n">>}
             THEN /\ printed' = Append(printed, Response(raw))
                  /\ UNCHANGED <<cf_pc, cf_ret>>
             ELSE /\ cf_ret' = (Response(raw) = <<"y">>)
                  /\ cf_pc' = "returned"
                  /\ UNCHANGED printed
    /\ UNCHANGED <<notConfirm, cfArgs>>

confirm == CfEnter \/ CfPrompt

(* ------------------------ the library's runs --------------------------- *)
\* One call of one function of the library.
InitLib ==
    /\ ExecIdle /\ TwoIdle /\ ToolsIdle
    /\ \/ InitEnvFile /\ EnsureIdle /\ WindowIdle /\ ConfirmIdle
       \/ EnvFileIdle /\ InitEnsure /\ WindowIdle /\ ConfirmIdle
       \/ EnvFileIdle /\ EnsureIdle /\ InitWindow /\ ConfirmIdle
       \/ EnvFileIdle /\ EnsureIdle /\ WindowIdle /\ InitConfirm

NextLib == add_to_env_from_file \/ ensure_envars_set \/ window_iterator \/ confirm

SpecLib == InitLib /\ [][NextLib]_vars

(* ------------------------------ claims --------------------------------- *)
Ended == pc \in {"returned", "raised"}
Running(s) == th[s] \in {"setup", "loop"}

\* The lines the child has written to stream s so far.
Written(s) == WrittenUpTo(program, s, cpc - 1)

\* The texts logged with the prefix of stream s, in order.
LoggedText(s) ==
    LET recs == SelectSeq(exec_log, LAMBDA r : r.prefix = PrefixOf(s))
    IN [i \in 1..Len(recs) |-> recs[i].text]

Stripped(lines) == [i \in 1..Len(lines) |-> Rstrip(lines[i])]

\* The capture destination is as it was before the call.
CaptureUntouched == capFile = IF capExists THEN <<StaleLine>> ELSE <<>>

\* C1: whenever sys_exec has returned a value, the child has terminated and
\* the value is the exit status the child terminated with.
C1_ReturnsExitCode ==
    pc = "returned" => childState = "exited" /\ ret # None /\ ret = status

C1_Witness ==
    /\ pc = "returned"
    /\ ret = Some(1)
    /\ quiet_stderr
    /\ stdout_file_dest # None
    /\ Len(exec_log) > 0

\* C2: with a missing executable sys_exec raises RuntimeError and nothing
\* else happens: no child, no drain thread, no capture file opened, created
\* or truncated, and no line logged by exec_logger.
C2_MissingExecutable ==
    ~executable_exists =>
        /\ pc \in {"call", "raised"}
        /\ pc = "raised" => err = "RuntimeError"
        /\ childState = "unborn"
        /\ \A s \in Streams : th[s] = "none" /\ cap_f[s] = "None"
        /\ CaptureUntouched
        /\ exec_log = <<>>

C2_Witness ==
    /\ ~executable_exists
    /\ pc = "raised"
    /\ err = "RuntimeError"
    /\ stdout_file_dest # None

\* C3: the stderr drain exists only after the stdout drain has reached
\* end-of-stream and terminated, the wait for the child starts only when
\* every started drain has terminated, and the drains never run together.
C3_DrainOrder ==
    /\ th["stderr"] # "none" => th["stdout"] = "done" /\ sawEOF["stdout"]
    /\ pc \in {"wait", "exit_wait", "returned"} => \A s \in Streams : ~Running(s)
    /\ ~(Running("stdout") /\ Running("stderr"))

C3_Witness ==
    /\ pc = "wait"
    /\ th["stdout"] = "done"
    /\ th["stderr"] = "done"
    /\ Len(LoggedText("stdout")) > 0
    /\ Len(LoggedText("stderr")) > 0

\* C4 as claimed: when sys_exec has returned, stdout and stderr have both
\* been read to end-of-stream, whatever quiet_stderr is.
C4_AllDrained ==
    pc = "returned" => \A s \in Streams : sawEOF[s]

\* C4: when sys_exec has returned, stdout has been read to end-of-stream;
\* stderr has been read to end-of-stream when quiet_stderr is false and has
\* not been read at all when quiet_stderr is true.
C4_Drained ==
    pc = "returned" =>
        /\ sawEOF["stdout"]
        /\ ~quiet_stderr => sawEOF["stderr"]
        /\ quiet_stderr => th["stderr"] = "none" /\ LoggedText("stderr") = <<>>

C4_Witness ==
    /\ pc = "returned"
    /\ ~quiet_stderr
    /\ sawEOF["stdout"]
    /\ sawEOF["stderr"]
    /\ Len(LoggedText("stderr")) > 0

\* C5: with no stream error at all, a child that never terminates makes
\* p.wait raise the timeout error sooner or later.
C5_TimeoutRaised ==
    (executable_exists /\ ending = "hang" /\ broken = "none" /\ faults = 0)
        => <>(err = "TimeoutExpired")

\* C6: no timeout error for a child that terminates by itself less than
\* exec_timeout_mins minutes after p.wait was called.
C6_TimeoutInMinutes ==
    err = "TimeoutExpired" =>
        ~(/\ childState = "exited"
          /\ status = Some(exit_status)
          /\ exitAt < SecsPerMin * exec_timeout_mins)

\* C7: a drain that has logged an error has terminated.
C7_DrainStopsOnError ==
    \A s \in Streams : errLogged[s] > 0 => th[s] = "done"

\* C8: once the child has terminated, a sys_exec that is draining or waiting
\* goes on to return the child's exit code, whatever the stream errors.
C8_ErrorsDoNotAbort ==
    (/\ childState = "exited"
     /\ pc \in {"start_stdout", "join_stdout", "start_stderr", "join_stderr", "wait"})
        ~> (pc = "returned" /\ ret = status)

\* C9: a drain that has terminated has flushed and closed its capture file,
\* and so has every drain once sys_exec has returned or raised.
C9_CaptureClosed ==
    \A s \in Streams :
        (th[s] = "done" \/ Ended) => cap_f[s] # "open" /\ cap_buf = <<>>

C9_Witness ==
    /\ pc = "returned"
    /\ cap_f["stdout"] = "closed"
    /\ errLogged["stdout"] > 0
    /\ capFile # <<>>

C11_QuietStderr ==
    quiet_stderr =>
        /\ th["stderr"] = "none"
        /\ LoggedText("stderr") = <<>>
        /\ (stdout_file_dest # None /\ th["stdout"] \in {"loop", "done"}) =>
               capExists /\ "Set up output to capture file" \in module_log
        /\ sawEOF["stdout"] => LoggedText("stdout") = Stripped(Written("stdout"))

C11_Witness ==
    /\ quiet_stderr
    /\ pc = "returned"
    /\ ret = Some(1)
    /\ stdout_file_dest # None
    /\ Written("stderr") # <<>>
    /\ LoggedText("stdout") # <<>>

\* The child is blocked writing to the full pipe of stream s.
ChildBlockedOn(s) ==
    /\ childState = "running"
    /\ cpc <= Len(program)
    /\ IsWrite(program[cpc])
    /\ StreamOf(program[cpc]) = s
    /\ ~closed[s]
    /\ Len(pipe[s]) >= PipeCap

\* The drain of stream s is blocked in readline(): nothing to read, and the
\* child still holds the stream open.
DrainBlockedOn(s) ==
    th[s] = "loop" /\ ~closed[s] /\ broken # s /\ pipe[s] = <<>> /\ wopen[s]

\* C12: for a child that ends by exiting and with no stream error, the child
\* is never blocked on the full pipe of one stream while sys_exec is blocked
\* reading the other stream or waiting for the child's exit.
C12_NoPipeDeadlock ==
    (ending = "exit" /\ broken = "none" /\ faults = 0) =>
        \A s \in Streams : \A o \in Streams \ {s} :
            ~(ChildBlockedOn(s) /\ (DrainBlockedOn(o) \/ pc = "wait"))

\* C13: when sys_exec has returned or raised, no drain thread is running:
\* each one was never started or has terminated.
C13_ThreadsJoined ==
    Ended => \A s \in Streams : th[s] \in {"none", "done"}

C13_Witness ==
    /\ pc = "raised"
    /\ err = "TimeoutExpired"
    /\ th["stdout"] = "done"
    /\ th["stderr"] = "done"

\* C15: when the condition is first true on its trueAt-th evaluation, the
\* effect is invoked at most once and only once that evaluation is made, the
\* condition is not evaluated after it, and the call returns only after
\* the effect ran, with the effect's return value.
C15_EffectOnceAfterN ==
    (bu_pc # "idle" /\ trueAt # 0) =>
        /\ effects <= 1
        /\ evals <= trueAt
        /\ effects = 1 => evals = trueAt
        /\ evals = trueAt => bu_pc \in {"effect", "returned"}
        /\ bu_pc = "effect" => effects = 0
        /\ bu_pc = "returned" => effects = 1 /\ bu_ret = Some(effect_ret)

C15_Witness ==
    /\ bu_pc = "returned" /\ trueAt = MaxTrueAt /\ evals = MaxTrueAt
    /\ effects = 1 /\ bu_ret = Some(1)

\* C16 as stated: a condition that is never true ends the call with a
\* TimeoutError, without the effect, no earlier than timeout_s and no later than
\* timeout_s + condition_fail_wait_s seconds after the start.
C16_TimeoutWindow ==
    /\ [](trueAt = 0 =>
            /\ effects = 0 /\ bu_pc # "returned"
            /\ bu_pc = "raised" =>
                /\ bu_err = "TimeoutError"
                /\ now - t0 >= timeout_s * TicksPerSec
                /\ now - t0 <= (timeout_s + condition_fail_wait_s) * TicksPerSec)
    /\ ((bu_pc = "call" /\ trueAt = 0) ~> bu_pc = "raised")

\* C16 amended: the upper bound counts the time of the last evaluation of the
\* condition and the second the whole-second clock may lose; it is
\* timeout_s + condition_fail_wait_s when the condition takes no time.
C16_TimeoutWindowEval ==
    /\ [](trueAt = 0 =>
            /\ effects = 0 /\ bu_pc # "returned"
            /\ bu_pc = "raised" =>
                /\ bu_err = "TimeoutError"
                /\ now - t0 >= timeout_s * TicksPerSec
                /\ now - t0 < (timeout_s + 1 + condition_fail_wait_s) * TicksPerSec + cond_dur
                /\ cond_dur = 0 =>
                     now - t0 <= (timeout_s + condition_fail_wait_s) * TicksPerSec)
    /\ ((bu_pc = "call" /\ trueAt = 0) ~> bu_pc = "raised")

C16_Witness ==
    /\ bu_pc = "raised" /\ trueAt = 0 /\ cond_dur = 0 /\ evals >= 2
    /\ now - t0 = (timeout_s + condition_fail_wait_s) * TicksPerSec

\* C17: the wrapped condition is true exactly when call() returned 0 and false
\* when it returned another value or raised; each exception of call() is
\* logged and none reaches the caller of the condition.
C17_SyscallCondition ==
    /\ evals > 0 => lastCond = (~lastCall.raises /\ lastCall.rc = 0)
    /\ excLogged = Cardinality({n \in 1..evals : Call(n).raises})
    /\ bu_err \in {"none", "TimeoutError"}
    /\ (evals > 0 /\ (lastCall.raises \/ lastCall.rc # 0)) =>
           bu_pc \in {"sleep", "check", "cond", "raised"}

C17_Witness ==
    /\ call_fail = "mixed" /\ bu_pc = "returned" /\ evals = 3 /\ excLogged = 1
    /\ lastCond

\* C18: a command that exits non-zero has its stderr logged; with
\* exit_on_error the process then exits with code -1 and nothing is
\* returned, without it the completed process with that code is returned; a
\* command that exits 0 is always returned, never exited on, for both
\* values of shell.
C18_ExitOnError ==
    /\ sc_pc \in {"exited", "returned"} =>
          /\ ran = (IF shell THEN "shell" ELSE "argv")
          /\ stderr_logged = (cmd_rc # 0)
          /\ (sc_pc = "exited") = (cmd_rc # 0 /\ exit_on_error)
    /\ sc_pc = "exited" => sc_exit = Some(0 - 1) /\ sc_ret = None /\ stderr_logged
    /\ sc_pc = "returned" => sc_ret = Some(cmd_rc) /\ sc_exit = None
    /\ sc_pc \notin {"exited", "returned"} => sc_exit = None /\ sc_ret = None

C18_Witness ==
    /\ sc_pc = "exited" /\ ~shell /\ exit_on_error /\ cmd_rc = MaxRc
    /\ stderr_logged /\ sc_exit = Some(0 - 1)

\* C19: when the with-block has ended, normally or by an exception of the
\* body, every variable that was removed or overwritten has its value from
\* before the block, every variable that update introduced is absent, and
\* the environment equals the one before the block when the body changed
\* nothing.
C19_Reverted ==
    me_pc = "exited" =>
        /\ \A k \in Names :
              /\ (env_before[k] # Unset /\ (k \in remove \/ ALL \in remove
                                            \/ update[k] # Unset))
                     => env[k] = env_before[k]
              /\ (env_before[k] = Unset /\ update[k] # Unset) => env[k] = Unset
        /\ body_ops = 0 => env = env_before

\* C20: inside the block every key of update has its update value and every
\* removed name that is not a key of update is absent; with "ALL" among the
\* removed names the environment is exactly update.
C20_Inside ==
    me_pc \in {"body", "finally", "exited"} =>
        /\ \A k \in Names :
              /\ update[k] # Unset => env_inside[k] = update[k]
              /\ (k \in remove /\ update[k] = Unset) => env_inside[k] = Unset
        /\ ALL \in remove => env_inside = update
        /\ (me_pc = "body" /\ body_ops = 0) => env = env_inside

C20_Witness ==
    /\ me_pc = "body" /\ body_ops = 0
    /\ remove = {ALL} /\ env_before = [k \in Names |-> 1]
    /\ update = [k \in Names |-> IF k = "A" THEN MaxVal ELSE Unset]
    /\ env = update

C25_LazyOpen ==
    (stdout_file_dest # None /\ Written("stdout") = <<>>) =>
        CaptureUntouched /\ cap_f["stdout"] = "None"

\* C25 amended: the capture file is opened when the stdout drain starts,
\* before any line is read: it is untouched until then, and from then on it
\* exists, what it held before is gone, and it is empty for as long as the
\* child has written nothing to stdout.
C25_EagerOpen ==
    stdout_file_dest # None =>
        /\ th["stdout"] \in {"none", "setup"} =>
               CaptureUntouched /\ cap_f["stdout"] = "None"
        /\ th["stdout"] \in {"loop", "done"} =>
               /\ capExists /\ cap_f["stdout"] # "None"
               /\ \A n \in 1..Len(capFile) : capFile[n] # StaleLine
               /\ Written("stdout") = <<>> => capFile = <<>>

C25_Witness ==
    /\ pc = "returned" /\ stdout_file_dest # None
    /\ program # <<>> /\ Written("stdout") = <<>>
    /\ capExists /\ capFile = <<>> /\ cap_f["stdout"] = "closed"

\* C26: when evaluating the condition takes no time, the evaluations are made
\* at 0, w, 2w, ... seconds after the start (w = condition_fail_wait_s), at
\* least one and at most timeout_s \div w + 1 of them, the one at exactly
\* timeout_s included; a call that times out has made them all, and a
\* condition that turns true only later is never seen true.
C26_PollInstants ==
    (bu_pc # "idle" /\ cond_dur = 0) =>
        /\ evals <= timeout_s \div condition_fail_wait_s + 1
        /\ Len(evalAt) = evals
        /\ \A k \in 1..Len(evalAt) :
              evalAt[k] = (k - 1) * condition_fail_wait_s * TicksPerSec
        /\ bu_pc \in {"returned", "raised"} => evals >= 1
        /\ bu_pc = "raised" => evals = timeout_s \div condition_fail_wait_s + 1
        /\ (trueAt = 0 \/ trueAt > timeout_s \div condition_fail_wait_s + 1) =>
               effects = 0 /\ bu_pc # "returned" /\ ~lastCond

C26_Witness ==
    /\ bu_pc = "raised" /\ cond_dur = 0 /\ trueAt = MaxTrueAt
    /\ timeout_s = 2 /\ condition_fail_wait_s = 2 /\ evals = 2
    /\ evalAt[2] = timeout_s * TicksPerSec

\* C21: on a file whose lines are KEY=VALUE lines and "#" comment lines,
\* parse_environment_file_to_values raises no error and returns a mapping
\* whose keys are exactly the keys of the KEY=VALUE lines.
C21_CommentsIgnored ==
    LET lines == file_lines(ef_text)
        IsComment(l) == l # <<>> /\ l[1] = Hash
        IsKeyValue(l) ==
            /\ l # <<>> /\ l[1] \notin {Hash, EqSign}
            /\ \E n \in 2..Len(l) : l[n] = EqSign
        KeyBeforeEq(l) ==
            SubSeq(l, 1, (CHOOSE n \in 2..Len(l) :
                             l[n] = EqSign /\ \A m \in 1..(n - 1) : l[m] # EqSign) - 1)
    IN  (/\ ef_fn = "parse" /\ ef_pc \in {"returned", "raised"}
         /\ \A n \in 1..Len(lines) : IsComment(lines[n]) \/ IsKeyValue(lines[n]))
            => /\ ef_pc = "returned"
               /\ KeysOf(prepped) =
                      {KeyBeforeEq(lines[n]) : n \in {m \in 1..Len(lines) : IsKeyValue(lines[m])}}

C22_MissingExactly ==
    LET Offends(n) ==
            \/ ev_environ[to_validate[n]] = Unset
            \/ are_paths /\ ~create_ok /\ ev_environ[to_validate[n]] \notin ev_exists
        Offenders == {n \in 1..Len(to_validate) : Offends(n)}
    IN  /\ ev_pc \in {"returned", "raised"} =>
              /\ (ev_pc = "raised" /\ ev_err = "MissingEnvironmentVariableError")
                     = (Offenders # {})
              /\ Offenders = {} => ev_pc = "returned"
        /\ (ev_pc = "raised" /\ ev_err = "MissingEnvironmentVariableError") =>
              ev_i \in Offenders /\ \A n \in Offenders : ev_i <= n

\* C22 amended: with are_paths and create_ok a path that does not exist is
\* made, and a path that cannot be made ends the call with OSError; the call
\* ends at the first variable of the list that is not set, names a missing
\* path without create_ok, or names a path that cannot be made, and returns
\* None when there is none.
C22_FirstOffender ==
    LET Offends(n) ==
            \/ ev_environ[to_validate[n]] = Unset
            \/ are_paths /\ ~create_ok /\ ev_environ[to_validate[n]] \notin ev_exists
        Unmakable(n) ==
            /\ are_paths /\ create_ok
            /\ ev_environ[to_validate[n]] \in ev_unmakable
        Stoppers == {n \in 1..Len(to_validate) : Offends(n) \/ Unmakable(n)}
    IN  /\ ev_pc = "returned" => Stoppers = {} /\ ev_err = "none"
        /\ ev_pc = "loop" => \A n \in Stoppers : ev_i <= n
        /\ ev_pc = "raised" =>
              /\ ev_i \in Stoppers /\ \A n \in Stoppers : ev_i <= n
              /\ ev_err = IF Offends(ev_i) THEN "MissingEnvironmentVariableError"
                          ELSE "OSError"
        /\ (are_paths /\ create_ok /\ ev_pc = "returned") =>
              \A n \in 1..Len(to_validate) : ev_environ[to_validate[n]] \in ev_exists

C22_Witness ==
    /\ ev_pc = "raised" /\ ev_err = "OSError" /\ ev_i = 2 /\ are_paths /\ create_ok
    /\ ev_environ[to_validate[1]] \in ev_exists
    /\ to_validate[1] # to_validate[2]

\* C23: a window_iterator over a list of length L with width n >= 1 that has
\* run to its end has yielded, when n <= L, the L-n+1 windows seq[i..i+n-1] in
\* order, and when n > L the one tuple of all elements of the list; before
\* its end it has yielded the first of them.
C23_Windows ==
    LET L == Len(wi_seq)
        Expected == IF wi_n <= L
                    THEN [i \in 1..(L - wi_n + 1) |-> SubSeq(wi_seq, i, i + wi_n - 1)]
                    ELSE <<wi_seq>>
    IN  wi_pc # "idle" =>
          /\ Len(yielded) <= Len(Expected)
          /\ yielded = SubSeq(Expected, 1, Len(yielded))
          /\ wi_pc = "done" => yielded = Expected
          /\ wi_n <= L => \A i \in 1..Len(yielded) : Len(yielded[i]) = wi_n

C23_Witness ==
    /\ wi_pc = "done" /\ wi_n = 2 /\ wi_seq = <<"a", "b", "b">>
    /\ yielded = << <<"a", "b">>, <<"b", "b">> >>

\* C24: with silent false, confirm keeps prompting while the lower-cased
\* response is not "y", "n" or empty, printing one message with that
\* response for each; it returns on the first response that is, true exactly
\* when it is "y" or empty with yes_is_default; with silent true it returns
\* true without a prompt.
C24_Confirm ==
    LET Low(s) == [i \in 1..Len(s) |->
                      IF s[i] = "Y" THEN "y" ELSE IF s[i] = "N" THEN "n"
                      ELSE IF s[i] = "O" THEN "o" ELSE s[i]]
        Valid(s) == Low(s) \in {<<"y">>, <<"n">>, <<>>}
        k == Len(printed)
    IN  /\ silent => responses = <<>> /\ printed = <<>>
                     /\ (cf_pc = "returned" => cf_ret = TRUE)
        /\ ~silent =>
              /\ \A i \in 1..k : ~Valid(responses[i]) /\ printed[i] = Low(responses[i])
              /\ cf_pc # "returned" => Len(responses) = k
              /\ cf_pc = "returned" =>
                    /\ Len(responses) = k + 1
                    /\ Valid(responses[k + 1])
                    /\ cf_ret = (\/ Low(responses[k + 1]) = <<"y">>
                                 \/ responses[k + 1] = <<>> /\ yes_is_default)

C24_Witness ==
    /\ cf_pc = "returned" /\ ~silent /\ yes_is_default /\ cf_ret
    /\ responses = << <<"N", "O">>, <<>> >>
    /\ printed = << <<"n", "o">> >>

============================================================================
